---- MODULE Spec2Model ----
(***************************************************************************)
(* Model of tinywasm's module instantiation (crates/tinywasm/src/          *)
(* instance.rs): ModuleInstance::instantiate run step by step against a    *)
(* Store, and the lookup surface of a ModuleInstance (export,              *)
(* exported_func_by_name, typed_func, start_func, start).                  *)
(*                                                                         *)
(* Addresses and indices are 0-based as in the Rust code; sequences are    *)
(* 1-based, so Get(seq, i) reads seq[i + 1].  An Option<T> is a sequence   *)
(* of length at most one: None is << >>, Some(x) is << x >>.               *)
(***************************************************************************)
EXTENDS Integers, Sequences, FiniteSets, TLC

\* ------------------------------------------------------------------ bounds
\* number of Store objects of the embedder
NumStores == 2
\* instantiate calls made by the embedder, over all stores
MaxCalls == 2
\* locally defined functions of a module
MaxFuncs == 2
\* locally defined tables, memories and globals of a module (each)
MaxDefs == 1
\* declared imports of a module
MaxImports == 1
\* entries of a table, bytes of a memory
TableSize == 2
MemSize == 2

StoreIds == 1..NumStores
Kinds == {"Func", "Table", "Memory", "Global"}
ExportNames == {"_start", "f"}

\* ----------------------------------------------------------------- options
None == << >>
Some(x) == << x >>
IsSome(o) == Len(o) = 1
Unwrap(o) == o[1]

\* slice::get(i): the element at 0-based index i, None when out of range
Get(seq, i) == IF i >= 0 /\ i < Len(seq) THEN Some(seq[i + 1]) ELSE None

\* the addresses first .. first + n - 1 handed out by an allocation of n objects
AddrRange(first, n) == [k \in 1..n |-> first + k - 1]

\* number of elements of seq that satisfy Test
Count(seq, Test(_)) == Len(SelectSeq(seq, Test))

\* ------------------------------------------------------- decoded modules
\* The Module handed to instantiate (tinywasm_types::TinyWasmModule, read by
\* instantiate as module.data).  Function i of a module has type index i, and
\* the types alternate between two function types.
FuncTypeAt(i) == IF i % 2 = 0 THEN "T0" ELSE "T1"

ImportDecls == UNION { [1..n -> Kinds] : n \in 0..MaxImports }

NumImported(imports, kind) == Count(imports, LAMBDA k : k = kind)

\* an active element segment writing `items` (function indices, None for
\* ref.null) into table `table` at `offset`
ElemSegment(offset, items) == [table |-> 0, offset |-> offset, items |-> items]
\* an active data segment writing `bytes` into memory `mem` at `offset`
DataSegment(offset, bytes) == [mem |-> 0, offset |-> offset, bytes |-> bytes]

ElemOk(nfuncs) == ElemSegment(0, << IF nfuncs > 0 THEN Some(0) ELSE None >>)
ElemOutOfBounds == ElemSegment(TableSize, << None >>)
DataOk == DataSegment(0, << 1 >>)
DataOutOfBounds == DataSegment(MemSize, << 1 >>)

\* size of the index space of `kind` in module m: imports, then local definitions
IndexSpace(m, kind) ==
    NumImported(m.imports, kind) +
    CASE kind = "Func" -> Len(m.funcs)
      [] kind = "Table" -> Len(m.table_types)
      [] kind = "Memory" -> Len(m.memory_types)
      [] kind = "Global" -> Len(m.globals)

\* A module with nf local functions and the imports imps, and no export, start
\* function or segment.  A module that defines functions also defines MaxDefs
\* tables, memories and globals.
Base(nf, imps) ==
    LET nd == IF nf = 0 THEN 0 ELSE MaxDefs
    IN [ func_types |-> [i \in 1..nf |-> FuncTypeAt(i - 1)],
         funcs |-> [i \in 1..nf |-> [type_index |-> i - 1]],
         table_types |-> [i \in 1..nd |-> TableSize],
         memory_types |-> [i \in 1..nd |-> MemSize],
         globals |-> [i \in 1..nd |-> "const"],
         elements |-> << >>,
         data |-> << >>,
         start_func |-> None,
         imports |-> imps,
         exports |-> << >> ]

\* The exports a validated module m can declare for items of `kinds`: the index
\* is inside the index space; `_start` names an item of any kind, `f` a function.
ExportsInto(m, kinds) ==
    { e \in [ name : ExportNames, kind : kinds,
              index : 0..(MaxFuncs + MaxDefs + MaxImports) ] :
        /\ e.index < IndexSpace(m, e.kind)
        /\ e.name = "f" => e.kind = "Func" }

\* m with one export
WithExport(m, kinds) == { [m EXCEPT !.exports = << e >>] : e \in ExportsInto(m, kinds) }

\* m with a declared start function
WithStart(m) ==
    { [m EXCEPT !.start_func = Some(i)] : i \in 0..(IndexSpace(m, "Func") - 1) }

\* m, which has a table and a memory, with element and data sections: segments
\* that fit; an element segment out of bounds after one that fits; a data
\* segment out of bounds after one that fits; both kinds out of bounds
WithSegments(m) ==
    LET nfuncs == IndexSpace(m, "Func")
    IN { [m EXCEPT !.elements = p[1], !.data = p[2]] :
           p \in { << << ElemOk(nfuncs) >>, << DataOk >> >>,
                   << << ElemOk(nfuncs), ElemOutOfBounds >>, << DataOk >> >>,
                   << << >>, << DataOk, DataOutOfBounds >> >>,
                   << << ElemOutOfBounds >>, << DataOutOfBounds >> >> } }

Plain == { Base(nf, << >>) : nf \in 0..MaxFuncs }
Exporting == UNION { WithExport(m, Kinds) : m \in Plain }
Starting == UNION { WithStart(m) : m \in Plain }
StartingExporting == UNION { WithExport(m, {"Func"}) : m \in Starting }
Segmented == UNION { WithSegments(m) : m \in { m \in Plain : m.table_types # << >> } }
SegmentedExporting == UNION { WithExport(m, {"Func"}) : m \in Segmented }
Importing == { Base(nf, imps) : nf \in 0..MaxFuncs, imps \in ImportDecls \ { << >> } }
ImportingExporting ==
    UNION { WithExport(m, { m.imports[i] : i \in 1..Len(m.imports) }) : m \in Importing }

\* the modules the embedder instantiates
Modules ==
    Plain \cup Exporting \cup Starting \cup StartingExporting \cup Segmented
    \cup SegmentedExporting \cup Importing \cup ImportingExporting

\* ------------------------------------------------------------------ store
\* A Store: the objects of every kind it owns, the module instances added to
\* it and its module-instance counter.  A table is its entries (None is a
\* null reference), a memory its bytes.
EmptyStore ==
    [ funcs |-> << >>, tables |-> << >>, mems |-> << >>, globals |-> << >>,
      elems |-> 0, datas |-> 0,
      module_instances |-> << >>, module_instance_count |-> 0 ]

ErrOutOfMemory == "OutOfMemory"
ErrLink == "LinkError"
ErrInvalidStore == "InvalidStore"
ErrExportNotFound == "Other: Export not found"
ErrExportNotFunc == "Other: Export is not a function"
ErrFuncNotFound == "FuncNotFound"
TrapTableOutOfBounds == "Trap: TableOutOfBounds"
TrapMemoryOutOfBounds == "Trap: MemoryOutOfBounds"
TrapFailedInstance == "Trap: instance failed to instantiate"
TrapExecution == "Trap: raised by the function"

\* Store::next_module_instance_idx: the monotonic counter; returns its value
\* and advances it
next_module_instance_idx(st) ==
    [ idx |-> st.module_instance_count,
      store |-> [st EXCEPT !.module_instance_count = @ + 1] ]

\* the extern values registered in a store
Externs(st) ==
    { [kind |-> "Func", addr |-> a] : a \in 0..(Len(st.funcs) - 1) } \cup
    { [kind |-> "Table", addr |-> a] : a \in 0..(Len(st.tables) - 1) } \cup
    { [kind |-> "Memory", addr |-> a] : a \in 0..(Len(st.mems) - 1) } \cup
    { [kind |-> "Global", addr |-> a] : a \in 0..(Len(st.globals) - 1) }

\* what the embedder supplies for the declared imports, in declaration order:
\* an extern value of the store, or nothing
ImportsFor(st, module) ==
    [ 1..Len(module.imports) -> { None } \cup { Some(e) : e \in Externs(st) } ]

\* the addresses supplied for the imports of `kind`, in declaration order
RECURSIVE LinkedAddrs(_, _)
LinkedAddrs(supplied, kind) ==
    IF supplied = << >> THEN << >>
    ELSE (IF Unwrap(Head(supplied)).kind = kind
          THEN << Unwrap(Head(supplied)).addr >> ELSE << >>)
         \o LinkedAddrs(Tail(supplied), kind)

\* Imports::link: every declared import needs a supplied extern value of its
\* kind; the addresses accumulate per kind in declaration order
link(imports, module) ==
    IF \E i \in 1..Len(module.imports) :
          \/ imports[i] = None
          \/ Unwrap(imports[i]).kind # module.imports[i]
    THEN [ ok |-> FALSE, err |-> ErrLink ]
    ELSE [ ok |-> TRUE,
           addrs |-> [ funcs |-> LinkedAddrs(imports, "Func"),
                       tables |-> LinkedAddrs(imports, "Table"),
                       memories |-> LinkedAddrs(imports, "Memory"),
                       globals |-> LinkedAddrs(imports, "Global") ] ]

\* Store::init_funcs: one FuncInst per declaration, owned by instance idx
init_funcs(st, func_types, funcs, idx) ==
    [ store |-> [st EXCEPT !.funcs = @ \o
                    [i \in 1..Len(funcs) |->
                        [ty |-> func_types[funcs[i].type_index + 1], owner |-> idx]]],
      addrs |-> AddrRange(Len(st.funcs), Len(funcs)) ]

\* Store::init_tables: one table per type, its entries null
init_tables(st, table_types, idx) ==
    [ store |-> [st EXCEPT !.tables = @ \o
                    [i \in 1..Len(table_types) |-> [k \in 1..table_types[i] |-> None]]],
      addrs |-> AddrRange(Len(st.tables), Len(table_types)) ]

\* Store::init_memories: one memory per type, its bytes zero
init_memories(st, memory_types, idx) ==
    [ store |-> [st EXCEPT !.mems = @ \o
                    [i \in 1..Len(memory_types) |-> [k \in 1..memory_types[i] |-> 0]]],
      addrs |-> AddrRange(Len(st.mems), Len(memory_types)) ]

\* Store::init_globals: the imported global addresses, then one new global per
\* declaration
init_globals(st, imported, globals, idx) ==
    [ store |-> [st EXCEPT !.globals = @ \o [i \in 1..Len(globals) |-> globals[i]]],
      addrs |-> imported \o AddrRange(Len(st.globals), Len(globals)) ]

\* seq with vals written from 0-based position offset on
WriteAt(seq, offset, vals) ==
    [k \in 1..Len(seq) |->
        IF k > offset /\ k <= offset + Len(vals) THEN vals[k - offset] ELSE seq[k]]

\* Store::init_elements: an ElemInst per segment; an active segment is written
\* into its table, and the first one out of bounds stops the initialisation
\* with a trap, the segments before it staying applied
RECURSIVE init_elements(_, _, _, _, _)
init_elements(st, table_addrs, func_addrs, elements, elem_addrs) ==
    IF elements = << >>
    THEN [ store |-> st, addrs |-> elem_addrs, trap |-> None ]
    ELSE LET seg == Head(elements)
             table_addr == table_addrs[seg.table + 1]
             table == st.tables[table_addr + 1]
             refs == [k \in 1..Len(seg.items) |->
                        IF seg.items[k] = None THEN None
                        ELSE Some(func_addrs[Unwrap(seg.items[k]) + 1])]
         IN IF seg.offset + Len(seg.items) > Len(table)
            THEN [ store |-> st, addrs |-> elem_addrs,
                   trap |-> Some(TrapTableOutOfBounds) ]
            ELSE init_elements(
                    [st EXCEPT !.tables[table_addr + 1] = WriteAt(table, seg.offset, refs),
                               !.elems = @ + 1],
                    table_addrs, func_addrs, Tail(elements),
                    Append(elem_addrs, st.elems))

\* Store::init_datas: as init_elements, for memories and bytes
RECURSIVE init_datas(_, _, _, _)
init_datas(st, mem_addrs, data, data_addrs) ==
    IF data = << >>
    THEN [ store |-> st, addrs |-> data_addrs, trap |-> None ]
    ELSE LET seg == Head(data)
             mem_addr == mem_addrs[seg.mem + 1]
             mem == st.mems[mem_addr + 1]
         IN IF seg.offset + Len(seg.bytes) > Len(mem)
            THEN [ store |-> st, addrs |-> data_addrs,
                   trap |-> Some(TrapMemoryOutOfBounds) ]
            ELSE init_datas(
                    [st EXCEPT !.mems[mem_addr + 1] = WriteAt(mem, seg.offset, seg.bytes),
                               !.datas = @ + 1],
                    mem_addrs, Tail(data), Append(data_addrs, st.datas))

\* Store::add_instance: registers a module instance
add_instance(st, instance) ==
    [st EXCEPT !.module_instances = Append(@, instance)]

\* Store::get_func: bounds-checked
get_func(st, addr) == Get(st.funcs, addr)

\* --------------------------------------------------------------- state
VARIABLES
    stores,   \* the Store objects, by store id
    frame,    \* the instantiate call in progress: its position and locals
    calls,    \* instantiate calls begun so far
    last      \* what the last completed call returned and which function it ran

vars == << stores, frame, calls, last >>

NoAddrs == [ funcs |-> << >>, tables |-> << >>, memories |-> << >>, globals |-> << >> ]

IdleFrame ==
    [ pc |-> "idle", store |-> 0, module |-> << >>, imports |-> << >>, idx |-> 0,
      addrs |-> NoAddrs, global_addrs |-> << >>,
      elem_addrs |-> << >>, elem_trapped |-> None,
      data_addrs |-> << >>, data_trapped |-> None ]

\* no call has returned since the last instantiate call began
NoCall ==
    [ op |-> "none", store |-> 0, idx |-> 0, inst |-> None,
      res |-> "none", val |-> None, err |-> "", ran |-> None,
      elem_trapped |-> None, data_trapped |-> None ]

\* the record of a call that returned: the operation, the store passed, the
\* index and (when the caller holds it) the instance it is about, the result,
\* the function it ran, and for instantiate the traps its initialisations reported
Returned(op, s, idx, inst, res, val, err, ran) ==
    [ op |-> op, store |-> s, idx |-> idx, inst |-> inst,
      res |-> res, val |-> val, err |-> err, ran |-> ran,
      elem_trapped |-> None, data_trapped |-> None ]

Init ==
    /\ stores = [s \in StoreIds |-> EmptyStore]
    /\ frame = IdleFrame
    /\ calls = 0
    /\ last = NoCall

\* ------------------------------------------- ModuleInstance::instantiate
\* faulty variant of FailedToInstantiate: the data trap is forgotten
FailedToInstantiate_ElemOnly(elem_trapped, data_trapped) == IsSome(elem_trapped)

\* instance.rs:79
FailedToInstantiate(elem_trapped, data_trapped) ==
    IsSome(elem_trapped) \/ IsSome(data_trapped)

\* faulty variant of ModuleInstanceInner: table_addrs is filled from the function addresses
ModuleInstanceInner_TablesFromFuncs(f) ==
    [ failed_to_instantiate |-> FailedToInstantiate(f.elem_trapped, f.data_trapped),
      store_id |-> f.store,
      idx |-> f.idx,
      types |-> f.module.func_types,
      func_addrs |-> f.addrs.funcs,
      table_addrs |-> f.addrs.funcs,
      mem_addrs |-> f.addrs.memories,
      global_addrs |-> f.global_addrs,
      elem_addrs |-> f.elem_addrs,
      data_addrs |-> f.data_addrs,
      func_start |-> f.module.start_func,
      imports |-> f.module.imports,
      exports |-> f.module.exports ]

\* instance.rs:78-92, the ModuleInstanceInner assembled from the call's locals
ModuleInstanceInner(f) ==
    [ failed_to_instantiate |-> FailedToInstantiate(f.elem_trapped, f.data_trapped),
      store_id |-> f.store,
      idx |-> f.idx,
      types |-> f.module.func_types,
      func_addrs |-> f.addrs.funcs,
      table_addrs |-> f.addrs.tables,
      mem_addrs |-> f.addrs.memories,
      global_addrs |-> f.global_addrs,
      elem_addrs |-> f.elem_addrs,
      data_addrs |-> f.data_addrs,
      func_start |-> f.module.start_func,
      imports |-> f.module.imports,
      exports |-> f.module.exports ]

\* faulty variant of TrapReport: the data trap is tested first
TrapReport_DataFirst(elem_trapped, data_trapped) ==
    IF IsSome(data_trapped) THEN [ res |-> "Err", err |-> Unwrap(data_trapped) ]
    ELSE IF IsSome(elem_trapped) THEN [ res |-> "Err", err |-> Unwrap(elem_trapped) ]
    ELSE [ res |-> "Ok", err |-> "" ]

\* instance.rs:97-105, what instantiate returns once the instance is added
TrapReport(elem_trapped, data_trapped) ==
    IF IsSome(elem_trapped) THEN [ res |-> "Err", err |-> Unwrap(elem_trapped) ]
    ELSE IF IsSome(data_trapped) THEN [ res |-> "Err", err |-> Unwrap(data_trapped) ]
    ELSE [ res |-> "Ok", err |-> "" ]

\* a `?` that propagates err out of instantiate
InstantiateFails(err) ==
    /\ frame' = IdleFrame
    /\ last' = Returned("instantiate", frame.store, frame.idx, None, "Err", None, err, None)

\* faulty variant of InstantiateBegin: the counter of the store is read but not advanced
InstantiateBegin_ReuseIdx(s, module, imports) ==
    /\ frame.pc = "idle"
    /\ calls < MaxCalls
    /\ LET n == next_module_instance_idx(stores[s])
       IN /\ stores' = stores
          /\ frame' = [IdleFrame EXCEPT !.pc = "link", !.store = s, !.module = module,
                                        !.imports = imports, !.idx = n.idx]
    /\ calls' = calls + 1
    /\ last' = NoCall

\* instance.rs:56-63
InstantiateBegin(s, module, imports) ==
    /\ frame.pc = "idle"
    /\ calls < MaxCalls
    /\ LET n == next_module_instance_idx(stores[s])
       IN /\ stores' = [stores EXCEPT ![s] = n.store]
          /\ frame' = [IdleFrame EXCEPT !.pc = "link", !.store = s, !.module = module,
                                        !.imports = imports, !.idx = n.idx]
    /\ calls' = calls + 1
    /\ last' = NoCall

\* faulty variant of InstantiateLink: a call that fails at linking gives its index back
InstantiateLink_ReleaseIdx ==
    /\ frame.pc = "link"
    /\ LET l == link(frame.imports, frame.module)
       IN IF l.ok
          THEN /\ frame' = [frame EXCEPT !.pc = "init_funcs", !.addrs = l.addrs]
               /\ UNCHANGED << last, stores >>
          ELSE /\ InstantiateFails(l.err)
               /\ stores' = [stores EXCEPT ![frame.store].module_instance_count = frame.idx]
    /\ UNCHANGED calls

\* instance.rs:65
InstantiateLink ==
    /\ frame.pc = "link"
    /\ LET l == link(frame.imports, frame.module)
       IN IF l.ok
          THEN /\ frame' = [frame EXCEPT !.pc = "init_funcs", !.addrs = l.addrs]
               /\ UNCHANGED last
          ELSE InstantiateFails(l.err)
    /\ UNCHANGED << stores, calls >>

\* faulty variant of InstantiateInitFuncs: the new addresses are put before the imported ones
InstantiateInitFuncs_LocalsFirst ==
    /\ frame.pc = "init_funcs"
    /\ LET r == init_funcs(stores[frame.store], frame.module.func_types,
                           frame.module.funcs, frame.idx)
       IN /\ stores' = [stores EXCEPT ![frame.store] = r.store]
          /\ frame' = [frame EXCEPT !.pc = "init_tables", !.addrs.funcs = r.addrs \o @]
    /\ UNCHANGED << last, calls >>

\* instance.rs:69
InstantiateInitFuncs ==
    /\ frame.pc = "init_funcs"
    /\ \/ LET r == init_funcs(stores[frame.store], frame.module.func_types,
                              frame.module.funcs, frame.idx)
          IN /\ stores' = [stores EXCEPT ![frame.store] = r.store]
             /\ frame' = [frame EXCEPT !.pc = "init_tables", !.addrs.funcs = @ \o r.addrs]
             /\ UNCHANGED last
       \/ InstantiateFails(ErrOutOfMemory) /\ UNCHANGED stores
    /\ UNCHANGED calls

\* instance.rs:70
InstantiateInitTables ==
    /\ frame.pc = "init_tables"
    /\ \/ LET r == init_tables(stores[frame.store], frame.module.table_types, frame.idx)
          IN /\ stores' = [stores EXCEPT ![frame.store] = r.store]
             /\ frame' = [frame EXCEPT !.pc = "init_memories", !.addrs.tables = @ \o r.addrs]
             /\ UNCHANGED last
       \/ InstantiateFails(ErrOutOfMemory) /\ UNCHANGED stores
    /\ UNCHANGED calls

\* instance.rs:71
InstantiateInitMemories ==
    /\ frame.pc = "init_memories"
    /\ \/ LET r == init_memories(stores[frame.store], frame.module.memory_types, frame.idx)
          IN /\ stores' = [stores EXCEPT ![frame.store] = r.store]
             /\ frame' = [frame EXCEPT !.pc = "init_globals", !.addrs.memories = @ \o r.addrs]
             /\ UNCHANGED last
       \/ InstantiateFails(ErrOutOfMemory) /\ UNCHANGED stores
    /\ UNCHANGED calls

\* instance.rs:73
InstantiateInitGlobals ==
    /\ frame.pc = "init_globals"
    /\ \/ LET r == init_globals(stores[frame.store], frame.addrs.globals,
                                frame.module.globals, frame.idx)
          IN /\ stores' = [stores EXCEPT ![frame.store] = r.store]
             /\ frame' = [frame EXCEPT !.pc = "init_elements", !.global_addrs = r.addrs]
             /\ UNCHANGED last
       \/ InstantiateFails(ErrLink) /\ UNCHANGED stores
    /\ UNCHANGED calls

\* faulty variant of InstantiateInitElements: a trap undoes the segments applied before it
InstantiateInitElements_RollBack ==
    /\ frame.pc = "init_elements"
    /\ \/ LET r == init_elements(stores[frame.store], frame.addrs.tables,
                                 frame.addrs.funcs, frame.module.elements, << >>)
          IN /\ stores' = IF IsSome(r.trap) THEN stores
                          ELSE [stores EXCEPT ![frame.store] = r.store]
             /\ frame' = [frame EXCEPT !.pc = "init_datas", !.elem_addrs = r.addrs,
                                       !.elem_trapped = r.trap]
             /\ UNCHANGED last
       \/ InstantiateFails(ErrLink) /\ UNCHANGED stores
    /\ UNCHANGED calls

\* faulty variant of InstantiateInitElements: after an element trap init_datas is skipped
InstantiateInitElements_SkipDatasOnTrap ==
    /\ frame.pc = "init_elements"
    /\ \/ LET r == init_elements(stores[frame.store], frame.addrs.tables,
                                 frame.addrs.funcs, frame.module.elements, << >>)
          IN /\ stores' = [stores EXCEPT ![frame.store] = r.store]
             /\ frame' = [frame EXCEPT
                             !.pc = IF IsSome(r.trap) THEN "add_instance" ELSE "init_datas",
                             !.elem_addrs = r.addrs, !.elem_trapped = r.trap]
             /\ UNCHANGED last
       \/ InstantiateFails(ErrLink) /\ UNCHANGED stores
    /\ UNCHANGED calls

\* instance.rs:74-75
InstantiateInitElements ==
    /\ frame.pc = "init_elements"
    /\ \/ LET r == init_elements(stores[frame.store], frame.addrs.tables,
                                 frame.addrs.funcs, frame.module.elements, << >>)
          IN /\ stores' = [stores EXCEPT ![frame.store] = r.store]
             /\ frame' = [frame EXCEPT !.pc = "init_datas", !.elem_addrs = r.addrs,
                                       !.elem_trapped = r.trap]
             /\ UNCHANGED last
       \/ InstantiateFails(ErrLink) /\ UNCHANGED stores
    /\ UNCHANGED calls

\* faulty variant of InstantiateInitDatas: the instance is added although the
\* initialisation failed
InstantiateInitDatas_RegisterOnError ==
    /\ frame.pc = "init_datas"
    /\ \/ LET r == init_datas(stores[frame.store], frame.addrs.memories,
                              frame.module.data, << >>)
          IN /\ stores' = [stores EXCEPT ![frame.store] = r.store]
             /\ frame' = [frame EXCEPT !.pc = "add_instance", !.data_addrs = r.addrs,
                                       !.data_trapped = r.trap]
             /\ UNCHANGED last
       \/ /\ InstantiateFails(ErrLink)
          /\ stores' = [stores EXCEPT ![frame.store] =
                           add_instance(@, ModuleInstanceInner(frame))]
    /\ UNCHANGED calls

\* instance.rs:76
InstantiateInitDatas ==
    /\ frame.pc = "init_datas"
    /\ \/ LET r == init_datas(stores[frame.store], frame.addrs.memories,
                              frame.module.data, << >>)
          IN /\ stores' = [stores EXCEPT ![frame.store] = r.store]
             /\ frame' = [frame EXCEPT !.pc = "add_instance", !.data_addrs = r.addrs,
                                       !.data_trapped = r.trap]
             /\ UNCHANGED last
       \/ InstantiateFails(ErrLink) /\ UNCHANGED stores
    /\ UNCHANGED calls

\* faulty variant of InstantiateAddInstance: an instance whose segments trapped is not added
InstantiateAddInstance_SkipTrapped ==
    /\ frame.pc = "add_instance"
    /\ stores' = IF IsSome(frame.elem_trapped) \/ IsSome(frame.data_trapped)
                 THEN stores
                 ELSE [stores EXCEPT ![frame.store] =
                          add_instance(@, ModuleInstanceInner(frame))]
    /\ frame' = [frame EXCEPT !.pc = "report"]
    /\ UNCHANGED << last, calls >>

\* instance.rs:78-95
InstantiateAddInstance ==
    /\ frame.pc = "add_instance"
    /\ \/ /\ stores' = [stores EXCEPT ![frame.store] =
                            add_instance(@, ModuleInstanceInner(frame))]
          /\ frame' = [frame EXCEPT !.pc = "report"]
          /\ UNCHANGED last
       \/ InstantiateFails(ErrOutOfMemory) /\ UNCHANGED stores
    /\ UNCHANGED calls

\* instance.rs:97-105
InstantiateReturn ==
    /\ frame.pc = "report"
    /\ LET r == TrapReport(frame.elem_trapped, frame.data_trapped)
       IN last' = [ Returned("instantiate", frame.store, frame.idx,
                             IF r.res = "Ok" THEN Some(ModuleInstanceInner(frame)) ELSE None,
                             r.res, None, r.err, None)
                    EXCEPT !.elem_trapped = frame.elem_trapped,
                           !.data_trapped = frame.data_trapped ]
    /\ frame' = IdleFrame
    /\ UNCHANGED << stores, calls >>

\* ------------------------------------------------- lookups of an instance
\* the instance's address array for a kind
AddrsOfKind(inst, kind) ==
    CASE kind = "Func" -> inst.func_addrs
      [] kind = "Table" -> inst.table_addrs
      [] kind = "Memory" -> inst.mem_addrs
      [] kind = "Global" -> inst.global_addrs

\* faulty variant of export: the last export of that name decides
export_LastNamed(inst, name) ==
    LET found == SelectSeq(inst.exports, LAMBDA e : e.name = name)
    IN IF found = << >> THEN None
       ELSE LET exports == found[Len(found)]
                addr == Get(AddrsOfKind(inst, exports.kind), exports.index)
            IN IF addr = None THEN None
               ELSE Some([kind |-> exports.kind, addr |-> Unwrap(addr)])

\* faulty variant of export: the export's local index is returned as the address
export_LocalIndex(inst, name) ==
    LET found == SelectSeq(inst.exports, LAMBDA e : e.name = name)
    IN IF found = << >> THEN None
       ELSE LET exports == Head(found)
                addr == Get(AddrsOfKind(inst, exports.kind), exports.index)
            IN IF addr = None THEN None
               ELSE Some([kind |-> exports.kind, addr |-> exports.index])

\* ModuleInstance::export, instance.rs:109-120
export(inst, name) ==
    LET found == SelectSeq(inst.exports, LAMBDA e : e.name = name)
    IN IF found = << >> THEN None
       ELSE LET exports == Head(found)
                addr == Get(AddrsOfKind(inst, exports.kind), exports.index)
            IN IF addr = None THEN None
               ELSE Some([kind |-> exports.kind, addr |-> Unwrap(addr)])

Ok(val) == [ res |-> "Ok", val |-> val, err |-> "" ]
Err(err) == [ res |-> "Err", val |-> None, err |-> err ]
Panic == [ res |-> "Panic", val |-> None, err |-> "" ]

FuncHandle(inst, addr, ty, name) ==
    [ module |-> inst, addr |-> addr, ty |-> ty, name |-> name ]

\* faulty variant of exported_func_by_name: the kind of the export is not tested
exported_func_by_name_AnyKind(inst, s, name) ==
    IF inst.store_id # s THEN Err(ErrInvalidStore)
    ELSE LET e == export(inst, name)
         IN IF e = None THEN Err(ErrExportNotFound)
            ELSE LET func_addr == Unwrap(e).addr
                     func_inst == get_func(stores[s], func_addr)
                 IN IF func_inst = None THEN Err(ErrFuncNotFound)
                    ELSE Ok(Some(FuncHandle(inst, func_addr, Unwrap(func_inst).ty,
                                            Some(name))))

\* faulty variant of func_tys: the types are looked up by the addresses allocated
func_tys_ByAddress(inst) ==
    [i \in 1..Len(inst.func_addrs) |-> FuncTypeAt(inst.func_addrs[i])]

\* ModuleInstance::func_tys, instance.rs:127-129
func_tys(inst) == inst.types

\* ModuleInstance::exported_func_by_name, instance.rs:165-179
exported_func_by_name(inst, s, name) ==
    IF inst.store_id # s THEN Err(ErrInvalidStore)
    ELSE LET e == export(inst, name)
         IN IF e = None THEN Err(ErrExportNotFound)
            ELSE IF Unwrap(e).kind # "Func" THEN Err(ErrExportNotFunc)
            ELSE LET func_addr == Unwrap(e).addr
                     func_inst == get_func(stores[s], func_addr)
                 IN IF func_inst = None THEN Err(ErrFuncNotFound)
                    ELSE Ok(Some(FuncHandle(inst, func_addr, Unwrap(func_inst).ty,
                                            Some(name))))

\* ModuleInstance::typed_func, instance.rs:182-189
typed_func(inst, s, name) == exported_func_by_name(inst, s, name)

\* instance.rs:203-213: the declared start function, else the value that
\* export("_start") returns when it is a function
StartFuncIndex(inst) ==
    IF IsSome(inst.func_start) THEN inst.func_start
    ELSE LET e == export(inst, "_start")
         IN IF IsSome(e) /\ Unwrap(e).kind = "Func" THEN Some(Unwrap(e).addr) ELSE None

\* faulty variant of start_func: the store id is not compared
start_func_NoStoreCheck(inst, s) ==
    LET func_index == StartFuncIndex(inst)
    IN IF func_index = None THEN Ok(None)
       ELSE LET func_addr == Get(inst.func_addrs, Unwrap(func_index))
            IN IF func_addr = None THEN Panic
               ELSE LET func_inst == get_func(stores[s], Unwrap(func_addr))
                    IN IF func_inst = None THEN Err(ErrFuncNotFound)
                       ELSE Ok(Some(FuncHandle(inst, Unwrap(func_addr),
                                               Unwrap(func_inst).ty, None)))

\* ModuleInstance::start_func, instance.rs:198-220
start_func(inst, s) ==
    IF inst.store_id # s THEN Err(ErrInvalidStore)
    ELSE LET func_index == StartFuncIndex(inst)
         IN IF func_index = None THEN Ok(None)
            ELSE LET func_addr == Get(inst.func_addrs, Unwrap(func_index))
                 IN IF func_addr = None THEN Panic
                    ELSE LET func_inst == get_func(stores[s], Unwrap(func_addr))
                         IN IF func_inst = None THEN Err(ErrFuncNotFound)
                            ELSE Ok(Some(FuncHandle(inst, Unwrap(func_addr),
                                                    Unwrap(func_inst).ty, None)))

\* FuncHandle::call with no arguments: a function of an instance that failed
\* to instantiate is not run; a function that runs returns or traps
call(handle, traps) ==
    IF handle.module.failed_to_instantiate
    THEN [ res |-> "Err", err |-> TrapFailedInstance, ran |-> None ]
    ELSE [ res |-> IF traps THEN "Err" ELSE "Ok",
           err |-> IF traps THEN TrapExecution ELSE "",
           ran |-> Some(handle.addr) ]

\* ModuleInstance::start, instance.rs:227-234
start(inst, s, traps) ==
    LET f == start_func(inst, s)
    IN IF f.res # "Ok" THEN [ res |-> f.res, val |-> None, err |-> f.err, ran |-> None ]
       ELSE IF f.val = None THEN [ res |-> "Ok", val |-> None, err |-> "", ran |-> None ]
       ELSE LET c == call(Unwrap(f.val), traps)
            IN IF c.res = "Err"
               THEN [ res |-> "Err", val |-> None, err |-> c.err, ran |-> c.ran ]
               ELSE [ res |-> "Ok", val |-> Some("unit"), err |-> "", ran |-> c.ran ]

\* the embedder's instance.exported_func_by_name(store, name)?.call(store, &[])
invoke_export(inst, s, name, traps) ==
    LET f == exported_func_by_name(inst, s, name)
    IN IF f.res # "Ok" THEN [ res |-> f.res, val |-> None, err |-> f.err, ran |-> None ]
       ELSE LET c == call(Unwrap(f.val), traps)
            IN [ res |-> c.res, val |-> IF c.res = "Ok" THEN Some("unit") ELSE None,
                 err |-> c.err, ran |-> c.ran ]

\* the module instances registered in the stores, as (store id, position)
Registered ==
    { h \in StoreIds \X (1..MaxCalls) : h[2] <= Len(stores[h[1]].module_instances) }

InstanceAt(h) == stores[h[1]].module_instances[h[2]]

\* the embedder calls start on a registered instance, passing store s
Start(h, s, traps) ==
    /\ frame.pc = "idle"
    /\ LET inst == InstanceAt(h)
           r == start(inst, s, traps)
       IN last' = Returned("start", s, inst.idx, Some(inst), r.res, r.val, r.err, r.ran)
    /\ UNCHANGED << stores, frame, calls >>

Next ==
    \/ /\ frame.pc = "idle" /\ calls < MaxCalls
       /\ \E s \in StoreIds : \E module \in Modules :
             \E imports \in ImportsFor(stores[s], module) :
                InstantiateBegin(s, module, imports)
    \/ InstantiateLink
    \/ InstantiateInitFuncs
    \/ InstantiateInitTables
    \/ InstantiateInitMemories
    \/ InstantiateInitGlobals
    \/ InstantiateInitElements
    \/ InstantiateInitDatas
    \/ InstantiateAddInstance
    \/ InstantiateReturn
    \/ /\ frame.pc = "idle"
       /\ \E h \in Registered : \E s \in StoreIds : \E traps \in BOOLEAN : Start(h, s, traps)

Spec == Init /\ [][Next]_vars

\* =============================================== operator conversion
\* Model of the parser's conversion of decoded operators into instructions
\* (crates/parser/src/conversion.rs).  A wasmparser operator is a record whose
\* field op is the variant and whose other fields are its immediates; an
\* Instruction is a record of its variant and its arguments.  A value type of
\* the decoder is written as in the text format ("i32"), one of tinywasm_types
\* as the Rust variant ("I32").

\* operators of one stream, case labels of one br_table, value of an immediate
MaxOps == 3
MaxLabels == 2
MaxImmediate == 1

\* conversion.rs:87-98
convert_valtype(valtype) ==
    CASE valtype = "i32" -> "I32"
      [] valtype = "i64" -> "I64"
      [] valtype = "f32" -> "F32"
      [] valtype = "f64" -> "F64"
      [] valtype = "v128" -> "V128"
      [] valtype = "funcref" -> "FuncRef"
      [] valtype = "externref" -> "ExternRef"

\* conversion.rs:70-85; the FuncType arm is unimplemented!(), which panics
convert_blocktype(blocktype) ==
    CASE blocktype.kind = "Empty" -> Ok([args |-> "Empty"])
      [] blocktype.kind = "Type" ->
            Ok([args |-> "Type", ty |-> convert_valtype(blocktype.ty)])
      [] blocktype.kind = "FuncType" -> Panic

\* faulty variant of convert_memarg: offset and align are exchanged
convert_memarg_Exchanged(memarg) == [ offset |-> memarg.align, align |-> memarg.offset ]

\* conversion.rs:100-105
convert_memarg(memarg) == [ offset |-> memarg.offset, align |-> memarg.align ]

Instruction(variant, args) == [ instr |-> variant, args |-> args ]

\* the operators process_operator maps to the instruction of the same name
\* without arguments, conversion.rs:134-305
UnitOperators ==
    { "Unreachable", "Nop", "Else", "End", "Return", "Drop", "Select", "I32Eqz",
      "I32Eq", "I32Ne", "I32LtS", "I32LtU", "I32GtS", "I32GtU", "I32LeS",
      "I32LeU", "I32GeS", "I32GeU", "I64Eqz", "I64Eq", "I64Ne", "I64LtS",
      "I64LtU", "I64GtS", "I64GtU", "I64LeS", "I64LeU", "I64GeS", "I64GeU",
      "F32Eq", "F32Ne", "F32Lt", "F32Gt", "F32Le", "F32Ge", "F64Eq", "F64Ne",
      "F64Lt", "F64Gt", "F64Le", "F64Ge", "I32Clz", "I32Ctz", "I32Popcnt",
      "I32Add", "I32Sub", "I32Mul", "I32DivS", "I32DivU", "I32RemS", "I32RemU",
      "I32And", "I32Or", "I32Xor", "I32Shl", "I32ShrS", "I32ShrU", "I32Rotl",
      "I32Rotr", "I64Clz", "I64Ctz", "I64Popcnt", "I64Add", "I64Sub", "I64Mul",
      "I64DivS", "I64DivU", "I64RemS", "I64RemU", "I64And", "I64Or", "I64Xor",
      "I64Shl", "I64ShrS", "I64ShrU", "I64Rotl", "I64Rotr", "F32Abs", "F32Neg",
      "F32Ceil", "F32Floor", "F32Trunc", "F32Nearest", "F32Sqrt", "F32Add",
      "F32Sub", "F32Mul", "F32Div", "F32Min", "F32Max", "F32Copysign", "F64Abs",
      "F64Neg", "F64Ceil", "F64Floor", "F64Trunc", "F64Nearest", "F64Sqrt",
      "F64Add", "F64Sub", "F64Mul", "F64Div", "F64Min", "F64Max", "F64Copysign",
      "I32WrapI64", "I32TruncF32S", "I32TruncF32U", "I32TruncF64S",
      "I32TruncF64U", "I64ExtendI32S", "I64ExtendI32U", "I64TruncF32S",
      "I64TruncF32U", "I64TruncF64S", "I64TruncF64U", "F32ConvertI32S",
      "F32ConvertI32U", "F32ConvertI64S", "F32ConvertI64U", "F32DemoteF64",
      "F64ConvertI32S", "F64ConvertI32U", "F64ConvertI64S", "F64ConvertI64U",
      "F64PromoteF32", "I32ReinterpretF32", "I64ReinterpretF64",
      "F32ReinterpretI32", "F64ReinterpretI64" }

\* the loads and stores, which carry a memarg, conversion.rs:160-182
MemArgOperators ==
    { "I32Load", "I64Load", "F32Load", "F64Load", "I32Load8S", "I32Load8U",
      "I32Load16S", "I32Load16U", "I64Load8S", "I64Load8U", "I64Load16S",
      "I64Load16U", "I64Load32S", "I64Load32U", "I32Store", "I64Store",
      "F32Store", "F64Store", "I32Store8", "I32Store16", "I64Store8",
      "I64Store16", "I64Store32" }

\* ParseError::UnsupportedOperator with its message, conversion.rs:307-310
UnsupportedOperator(op) ==
    [ kind |-> "UnsupportedOperator", description |-> << "Unsupported instruction: ", op >> ]

\* conversion.rs:131-315
process_operator(op) ==
    CASE op.op \in { "Block", "Loop", "If" } ->
            LET blockargs == convert_blocktype(op.blockty)
            IN IF blockargs.res = "Ok"
               THEN Ok(Instruction(op.op, << blockargs.val >>))
               ELSE blockargs
      [] op.op \in { "Br", "BrIf" } -> Ok(Instruction(op.op, << op.relative_depth >>))
      [] op.op = "BrTable" -> Ok(Instruction("BrTable", << op.targets.default >>))
      [] op.op = "Call" -> Ok(Instruction("Call", << op.function_index >>))
      [] op.op = "CallIndirect" ->
            Ok(Instruction("CallIndirect", << op.type_index, op.table_index >>))
      [] op.op \in { "LocalGet", "LocalSet", "LocalTee" } ->
            Ok(Instruction(op.op, << op.local_index >>))
      [] op.op \in { "GlobalGet", "GlobalSet" } ->
            Ok(Instruction(op.op, << op.global_index >>))
      [] op.op \in { "MemorySize", "MemoryGrow" } -> Ok(Instruction(op.op, << >>))
      [] op.op \in MemArgOperators ->
            Ok(Instruction(op.op, << convert_memarg(op.memarg) >>))
      [] op.op \in UnitOperators -> Ok(Instruction(op.op, << >>))
      [] OTHER -> Err(UnsupportedOperator(op))

\* the ParseError that `?` makes of a decoder error, conversion.rs:112, 118
FromReaderError(e) == [ kind |-> "BinaryReaderError", description |-> << e >> ]

\* targets.targets().collect::<Result<Vec<u32>, _>>(), conversion.rs:116-118:
\* the case labels, or the error of the first one that cannot be read
CollectTargets(targets) ==
    LET bad == { k \in 1..Len(targets) : targets[k].res = "Err" }
    IN IF bad = { }
       THEN Ok([k \in 1..Len(targets) |-> targets[k].val])
       ELSE Err(targets[CHOOSE k \in bad : \A j \in bad : k <= j].err)

\* faulty variant of BrTableInstructions: the case labels are emitted in reverse order
BrTableInstructions_Reversed(default, labels) ==
    << Instruction("BrTable", << default >>) >>
    \o [k \in 1..Len(labels) |-> Instruction("BrLabel", << labels[Len(labels) + 1 - k] >>)]

\* conversion.rs:114-121: what a br_table pushes to the instructions
BrTableInstructions(default, labels) ==
    << Instruction("BrTable", << default >>) >>
    \o [k \in 1..Len(labels) |-> Instruction("BrLabel", << labels[k] >>)]

\* the loop of process_operators, conversion.rs:111-125: ops is what the
\* iterator still yields, instructions the vector built so far
RECURSIVE ProcessLoop(_, _)
ProcessLoop(ops, instructions) ==
    IF ops = << >> THEN Ok(instructions)
    ELSE LET item == Head(ops)
         IN IF item.res = "Err" THEN Err(FromReaderError(item.err))
            ELSE IF item.val.op = "BrTable"
            THEN LET labels == CollectTargets(item.val.targets.targets)
                 IN IF labels.res = "Err" THEN Err(FromReaderError(labels.err))
                    ELSE ProcessLoop(Tail(ops),
                            instructions
                            \o BrTableInstructions(item.val.targets.default, labels.val))
            ELSE LET v == process_operator(item.val)
                 IN IF v.res = "Ok" THEN ProcessLoop(Tail(ops), Append(instructions, v.val))
                    ELSE v

\* conversion.rs:107-128
process_operators(ops) == ProcessLoop(ops, << >>)

\* ------------------------------------------------ decoded operator streams
ErrDecode == "BinaryReaderError: operator"
ErrLabel == "BinaryReaderError: br_table target"

\* the case labels n - 1, ..., 0 of a br_table with n cases
Labels(n) == [k \in 1..n |-> Ok((n - k) % (MaxImmediate + 1))]

\* the label lists of the br_tables: every length up to MaxLabels, and lists
\* whose first or last label cannot be read
TargetLists ==
    { Labels(n) : n \in 0..MaxLabels }
    \cup { [Labels(n) EXCEPT ![n] = Err(ErrLabel)] : n \in 1..MaxLabels }
    \cup { [Labels(n) EXCEPT ![1] = Err(ErrLabel)] : n \in 1..MaxLabels }

BlockTypes ==
    { [kind |-> "Empty"], [kind |-> "Type", ty |-> "i32"], [kind |-> "Type", ty |-> "f64"],
      [kind |-> "FuncType", index |-> 0] }

\* the operators the streams are made of: operators of every arm of
\* process_operator, and operators it has no arm for
Operators ==
    { [op |-> "Nop"], [op |-> "I32Add"] }
    \cup { [op |-> "Block", blockty |-> b] : b \in BlockTypes \ { [kind |-> "Type", ty |-> "f64"] } }
    \cup { [op |-> "Loop", blockty |-> [kind |-> "Type", ty |-> "f64"]],
           [op |-> "If", blockty |-> [kind |-> "FuncType", index |-> 0]] }
    \cup { [op |-> "Br", relative_depth |-> d] : d \in 0..MaxImmediate }
    \cup { [op |-> "BrTable", targets |-> [default |-> MaxImmediate + 1, targets |-> t]] :
              t \in TargetLists }
    \cup { [op |-> "Call", function_index |-> MaxImmediate],
           [op |-> "CallIndirect", type_index |-> MaxImmediate, table_index |-> 0,
            table_byte |-> 0],
           [op |-> "LocalGet", local_index |-> MaxImmediate],
           [op |-> "GlobalSet", global_index |-> 0],
           [op |-> "MemorySize", mem |-> 0, mem_byte |-> 0],
           [op |-> "I32Load", memarg |-> [align |-> MaxImmediate + 1, max_align |-> 2,
                                         offset |-> MaxImmediate, memory |-> 0]] }
    \cup { [op |-> "V128Const", value |-> 0], [op |-> "I32Const", value |-> 0] }

\* what the iterator passed to process_operators yields: operators and decode errors
OperatorStreams ==
    UNION { [1..n -> { Ok(o) : o \in Operators } \cup { Err(ErrDecode) }] : n \in 0..MaxOps }

\* ------------------------------------------------ function bodies
\* local declarations of one function body, and locals one declaration stands for
MaxDecls == 2
MaxRun == 2

\* ParseError::Other("Invalid local index"), conversion.rs:39
ErrInvalidLocalIndex == [ kind |-> "Other", description |-> << "Invalid local index" >> ]

ErrReader == "BinaryReaderError: function body"
ErrLocal == "BinaryReaderError: local declaration"

\* conversion.rs:27-49.  func.locals is what get_locals_reader returns: the
\* declarations (count, type) the reader yields, each readable or not;
\* get_count is the number of declarations.  func.operators is what
\* get_operators_reader returns.
convert_module_code(func) ==
    IF func.locals.res = "Err" THEN Err(FromReaderError(func.locals.err))
    ELSE LET locals_reader == func.locals.val
             count == Len(locals_reader)
             read == SelectSeq(locals_reader, LAMBDA l : l.res = "Ok")
             locals == [i \in 1..Len(read) |-> convert_valtype(read[i].val[2])]
         IN IF Len(locals) # count THEN Err(ErrInvalidLocalIndex)
            ELSE IF func.operators.res = "Err"
            THEN Err(FromReaderError(func.operators.err))
            ELSE LET body == process_operators(func.operators.val)
                 IN IF body.res = "Ok"
                    THEN Ok([ locals |-> locals, body |-> body.val ])
                    ELSE body

\* the local declarations of a function body: up to MaxDecls declarations of
\* 0..MaxRun locals each, readable or not
LocalDecls ==
    UNION { [1..n -> { Ok(<< c, ty >>) : c \in 0..MaxRun, ty \in { "i32", "f64" } }
                     \cup { Err(ErrLocal) }] : n \in 0..MaxDecls }

\* the function bodies handed to convert_module_code: their operators are a
\* stream of at most one item
FunctionBodies ==
    { [ locals |-> Ok(d), operators |-> Ok(ops) ] :
         d \in LocalDecls,
         ops \in UNION { [1..n -> { Ok(o) : o \in Operators } \cup { Err(ErrDecode) }] :
                           n \in 0..1 } }
    \cup { [ locals |-> Err(ErrReader), operators |-> Ok(<< >>) ],
           [ locals |-> Ok(<< >>), operators |-> Err(ErrReader) ] }

\* convert_module_code runs on the function body and returns
ConvertModuleCode ==
    /\ frame.pc = "convert_module_code"
    /\ LET r == convert_module_code(frame.func)
       IN last' = [ op |-> "convert_module_code", func |-> frame.func,
                    res |-> r.res, val |-> r.val, err |-> r.err ]
    /\ frame' = IdleFrame
    /\ UNCHANGED << stores, calls >>

\* a stream is handed to process_operators, or a function body to
\* convert_module_code
ParserInit ==
    /\ stores = [s \in StoreIds |-> EmptyStore]
    /\ \/ frame \in { [pc |-> "process_operators", ops |-> ops] : ops \in OperatorStreams }
       \/ frame \in { [pc |-> "convert_module_code", func |-> func] :
                        func \in FunctionBodies }
    /\ calls = 0
    /\ last = NoCall

\* process_operators runs on the stream and returns
ProcessOperators ==
    /\ frame.pc = "process_operators"
    /\ LET r == process_operators(frame.ops)
       IN last' = [ op |-> "process_operators", ops |-> frame.ops,
                    res |-> r.res, val |-> r.val, err |-> r.err ]
    /\ frame' = IdleFrame
    /\ UNCHANGED << stores, calls >>

ParserNext == ProcessOperators \/ ConvertModuleCode

ParserSpec == ParserInit /\ [][ParserNext]_vars

\* ================================================== export on any instance
\* exports of one instance, and the largest export index
MaxExports == 2
MaxIndex == 2

\* the export lists an instance can hold: any names, kinds and indices, the
\* same name more than once, indices inside and outside the address arrays
ExportLists ==
    UNION { [1..n -> [ name : { "a", "b" }, kind : Kinds, index : 0..MaxIndex ]] :
               n \in 0..MaxExports }

\* the address arrays of the instance, by kind
AddrLayouts ==
    { [ func_addrs |-> << 3, 1 >>, table_addrs |-> << 0 >>,
        mem_addrs |-> << >>, global_addrs |-> << 4 >> ],
      [ func_addrs |-> << 2 >>, table_addrs |-> << >>,
        mem_addrs |-> << 1 >>, global_addrs |-> << 0, 5 >> ],
      [ func_addrs |-> << >>, table_addrs |-> << 1, 0 >>,
        mem_addrs |-> << 0 >>, global_addrs |-> << >> ] }

\* instance.rs:78-92 with the exports and the address arrays that export reads
InstanceWith(exports, addrs) ==
    [ failed_to_instantiate |-> FALSE,
      store_id |-> 0,
      idx |-> 0,
      types |-> << >>,
      func_addrs |-> addrs.func_addrs,
      table_addrs |-> addrs.table_addrs,
      mem_addrs |-> addrs.mem_addrs,
      global_addrs |-> addrs.global_addrs,
      elem_addrs |-> << >>,
      data_addrs |-> << >>,
      func_start |-> None,
      imports |-> << >>,
      exports |-> exports ]

\* an instance is asked for an export by name
ExportInit ==
    /\ stores = [s \in StoreIds |-> EmptyStore]
    /\ frame \in { [ pc |-> "export", inst |-> InstanceWith(e, a), name |-> n ] :
                      e \in ExportLists, a \in AddrLayouts, n \in { "a", "missing" } }
    /\ calls = 0
    /\ last = NoCall

\* export runs and returns
Export ==
    /\ frame.pc = "export"
    /\ last' = [ op |-> "export", inst |-> frame.inst, name |-> frame.name,
                 val |-> export(frame.inst, frame.name) ]
    /\ frame' = IdleFrame
    /\ UNCHANGED << stores, calls >>

ExportNext == Export

ExportSpec == ExportInit /\ [][ExportNext]_vars

\* ================================================================ claims
SegmentTraps == { TrapTableOutOfBounds, TrapMemoryOutOfBounds }

\* the instances registered in store s
InstancesOf(s) ==
    { stores[s].module_instances[k] : k \in 1..Len(stores[s].module_instances) }

\* the last instantiate call returned after its initialisations reported a trap
ReturnedTrapped ==
    /\ last.op = "instantiate"
    /\ IsSome(last.elem_trapped) \/ IsSome(last.data_trapped)

\* C1: when init_elements or init_datas reported a trap, the instance is in the
\* store before instantiate returns (it is the last one added when the trap is
\* about to be reported), the call returns the trap as an error, and after the
\* call the store still contains the instance.
C1_TrappedInstanceIsRegistered ==
    /\ frame.pc = "report" =>
          /\ stores[frame.store].module_instances # << >>
          /\ stores[frame.store].module_instances[Len(stores[frame.store].module_instances)]
                = ModuleInstanceInner(frame)
    /\ ReturnedTrapped =>
          /\ last.res = "Err" /\ last.err \in SegmentTraps
          /\ \E inst \in InstancesOf(last.store) :
                inst.idx = last.idx /\ inst.store_id = last.store

C1_Witness ==
    /\ ReturnedTrapped
    /\ last.data_trapped = Some(TrapMemoryOutOfBounds)
    /\ last.elem_trapped = None

\* C2: when both initialisations reported a trap, instantiate returns the
\* element trap; it returns the data trap only when element initialisation
\* did not trap.
C2_ElementTrapFirst ==
    last.op = "instantiate" =>
       /\ IsSome(last.elem_trapped) =>
             last.res = "Err" /\ last.err = Unwrap(last.elem_trapped)
       /\ (last.res = "Err" /\ last.err = TrapMemoryOutOfBounds) =>
             last.elem_trapped = None /\ last.data_trapped = Some(TrapMemoryOutOfBounds)

C2_Witness ==
    /\ last.op = "instantiate"
    /\ IsSome(last.elem_trapped) /\ IsSome(last.data_trapped)
    /\ last.err = TrapTableOutOfBounds

\* the instances of all stores stay as they were registered
RegisteredInstancesStay ==
    \A s \in StoreIds : \A k \in 1..Len(stores[s].module_instances) :
       /\ k <= Len(stores'[s].module_instances)
       /\ stores'[s].module_instances[k] = stores[s].module_instances[k]

\* the flag of the instance the last instantiate call created, against what
\* the call reported
FlagMatchesReport ==
    last.op = "instantiate" =>
       /\ \A inst \in InstancesOf(last.store) :
             inst.idx = last.idx =>
                /\ inst.failed_to_instantiate
                      <=> (IsSome(last.elem_trapped) \/ IsSome(last.data_trapped))
                /\ inst.failed_to_instantiate
                      <=> (last.res = "Err" /\ last.err \in SegmentTraps)
       /\ last.res = "Ok" =>
             /\ ~Unwrap(last.inst).failed_to_instantiate
             /\ Unwrap(last.inst) \in InstancesOf(last.store)

\* C3: a registered instance has failed_to_instantiate = TRUE exactly when the
\* instantiate call that created it reported an element or data trap; an
\* instance returned as a success has the flag FALSE, an instance with the flag
\* TRUE was reported as an error; the flag of a registered instance never
\* changes afterwards.
C3_FlagIffTrapReported == [](FlagMatchesReport) /\ [][RegisteredInstancesStay]_vars

C3_Witness ==
    /\ ReturnedTrapped
    /\ \E inst \in InstancesOf(last.store) :
          inst.idx = last.idx /\ inst.failed_to_instantiate
    /\ \E inst \in InstancesOf(last.store) : ~inst.failed_to_instantiate

\* every registered instance, with the store it is registered in
AllInstances == UNION { { << s, inst >> : inst \in InstancesOf(s) } : s \in StoreIds }

\* the instance has a function that start would invoke: a declared start
\* function, or an exported function named `_start`
HasStartFunction(inst) ==
    \/ IsSome(inst.func_start)
    \/ \E i \in 1..Len(inst.exports) :
          inst.exports[i].name = "_start" /\ inst.exports[i].kind = "Func"

\* C4: on an instance whose failed_to_instantiate flag is TRUE, looking an
\* exported function up by name and calling it, or calling start, never runs a
\* function, and yields a trap whenever there is a function to invoke.
C4_FailedInstanceYieldsTrap ==
    \A p \in AllInstances : (frame.pc = "idle" /\ p[2].failed_to_instantiate) =>
       \A traps \in BOOLEAN :
          /\ \A name \in ExportNames :
                LET r == invoke_export(p[2], p[1], name, traps)
                IN /\ r.ran = None
                   /\ exported_func_by_name(p[2], p[1], name).res = "Ok" =>
                         r.res = "Err" /\ r.err = TrapFailedInstance
          /\ LET r == start(p[2], p[1], traps)
             IN /\ r.ran = None
                /\ HasStartFunction(p[2]) =>
                      r.res = "Err" /\ r.err = TrapFailedInstance

\* C5: for an instance with no declared start function whose exports contain a
\* function named `_start`, start_func on the owning store returns a handle
\* whose address is func_addrs[export.index].
C5_StartFallbackReturnsExport ==
    \A p \in AllInstances : (frame.pc = "idle" /\ p[2].func_start = None) =>
       \A i \in 1..Len(p[2].exports) :
          (p[2].exports[i].name = "_start" /\ p[2].exports[i].kind = "Func") =>
             LET r == start_func(p[2], p[1])
             IN /\ r.res = "Ok"
                /\ IsSome(r.val)
                /\ Unwrap(r.val).addr = p[2].func_addrs[p[2].exports[i].index + 1]

\* C6: for every export E of an instance, export(E.name) is an extern value of
\* kind E.kind whose address is the entry at position E.index of the instance's
\* address array for that kind.
C6_ExportResolvesStoreAddress ==
    \A p \in AllInstances : \A i \in 1..Len(p[2].exports) :
       LET E == p[2].exports[i]
       IN export(p[2], E.name) =
             Some([kind |-> E.kind, addr |-> AddrsOfKind(p[2], E.kind)[E.index + 1]])

C6_Witness ==
    \E p \in AllInstances : \E i \in 1..Len(p[2].exports) :
       LET E == p[2].exports[i]
       IN /\ E.kind = "Table"
          /\ IsSome(export(p[2], E.name))
          /\ Unwrap(export(p[2], E.name)).addr # E.index

\* the objects of `kind` a store owns
StoreObjects(st, kind) ==
    CASE kind = "Func" -> st.funcs
      [] kind = "Table" -> st.tables
      [] kind = "Memory" -> st.mems
      [] kind = "Global" -> st.globals

\* the instance most recently added to store s
LastAdded(s) == stores[s].module_instances[Len(stores[s].module_instances)]

C8_AddressesValid ==
    \A p \in AllInstances :
       /\ p[2].store_id = p[1]
       /\ \A kind \in Kinds :
             \A i \in 1..Len(AddrsOfKind(p[2], kind)) :
                /\ AddrsOfKind(p[2], kind)[i] >= 0
                /\ AddrsOfKind(p[2], kind)[i] < Len(StoreObjects(stores[p[1]], kind))

\* a store in which one instantiate call failed before registration and
\* another one trapped, while it holds an instance with functions and a table
C8_Witness ==
    /\ frame.pc = "idle"
    /\ \E s \in StoreIds :
          /\ stores[s].module_instance_count > Len(stores[s].module_instances)
          /\ \E inst \in InstancesOf(s) :
                /\ inst.failed_to_instantiate
                /\ inst.func_addrs # << >> /\ inst.table_addrs # << >>

LookupNames == ExportNames \cup { "missing" }

\* what the lookups return when passed a store other than the instance's
RejectsOtherStores ==
    \A p \in AllInstances : \A s \in StoreIds \ { p[2].store_id } :
       /\ \A name \in LookupNames :
             /\ exported_func_by_name(p[2], s, name) = Err(ErrInvalidStore)
             /\ typed_func(p[2], s, name) = Err(ErrInvalidStore)
       /\ start_func(p[2], s) = Err(ErrInvalidStore)
       /\ \A traps \in BOOLEAN :
             start(p[2], s, traps) =
                [ res |-> "Err", val |-> None, err |-> ErrInvalidStore, ran |-> None ]

\* a start call that was passed another store returned InvalidStore and ran nothing
StartRejectedOtherStore ==
    (last.op = "start" /\ last.store # Unwrap(last.inst).store_id) =>
       last.res = "Err" /\ last.err = ErrInvalidStore /\ last.ran = None

\* a start call that was passed another store leaves every store as it was
StartOnOtherStoreKeepsStores ==
    (last'.op = "start" /\ last'.store # Unwrap(last'.inst).store_id) => stores' = stores

\* C9: for a store whose id differs from the instance's store_id,
\* exported_func_by_name, typed_func, start_func and start return InvalidStore,
\* whatever the name and the exports; they invoke no function and leave the
\* stores unchanged.
C9_OtherStoreIsInvalidStore ==
    [](RejectsOtherStores /\ StartRejectedOtherStore)
    /\ [][StartOnOtherStoreKeepsStores]_vars

\* start was called with another store, one that holds a function at the address
\* of the instance's start function
C9_Witness ==
    /\ last.op = "start"
    /\ last.store # Unwrap(last.inst).store_id
    /\ HasStartFunction(Unwrap(last.inst))
    /\ start_func(Unwrap(last.inst), Unwrap(last.inst).store_id).res = "Ok"
    /\ stores[last.store].funcs # << >>

\* the `_start` exports of an instance that are functions
StartExports(inst) ==
    { i \in 1..Len(inst.exports) :
        inst.exports[i].name = "_start" /\ inst.exports[i].kind = "Func" }

\* a declared start function wins, also over an export named `_start`
DeclaredStartWins ==
    \A p \in AllInstances : IsSome(p[2].func_start) =>
       LET r == start_func(p[2], p[1])
       IN /\ r.res = "Ok" /\ IsSome(r.val)
          /\ Unwrap(r.val).addr = p[2].func_addrs[Unwrap(p[2].func_start) + 1]

\* without a declared start function, an exported function `_start` is used
StartExportUsed ==
    \A p \in AllInstances : p[2].func_start = None =>
       \A i \in StartExports(p[2]) :
          LET r == start_func(p[2], p[1])
          IN /\ r.res = "Ok" /\ IsSome(r.val)
             /\ Unwrap(r.val).addr = p[2].func_addrs[p[2].exports[i].index + 1]

\* without either, start_func returns none and start returns success-with-none
\* and invokes nothing
NoStartIsNone ==
    \A p \in AllInstances : (p[2].func_start = None /\ StartExports(p[2]) = { }) =>
       /\ start_func(p[2], p[1]) = Ok(None)
       /\ \A traps \in BOOLEAN :
             start(p[2], p[1], traps) =
                [ res |-> "Ok", val |-> None, err |-> "", ran |-> None ]

\* C10: start_func on the owning store returns the declared start function
\* (address func_addrs[start index]) even when an export `_start` exists;
\* otherwise the exported function named `_start`; otherwise none, and start
\* then returns success-with-none without invoking anything.
C10_StartFuncPriority ==
    frame.pc = "idle" => (DeclaredStartWins /\ StartExportUsed /\ NoStartIsNone)

\* the two parts of C10 that do not go through the `_start` export
C10_DeclaredOrNone == DeclaredStartWins /\ NoStartIsNone

\* the exports of an instance named `name`, in declaration order
ExportsNamed(inst, name) == SelectSeq(inst.exports, LAMBDA e : e.name = name)

\* C11: on the owning store, exported_func_by_name(name) fails with an Other
\* error when no export has that name or when the export with that name is not
\* a function; otherwise it returns a handle whose address is the export's store
\* address func_addrs[index] and whose type is the type of the store's function
\* at that address.
C11_ExportedFuncByName ==
    \A p \in AllInstances : \A name \in LookupNames :
       LET inst == p[2]
           found == ExportsNamed(inst, name)
           r == exported_func_by_name(inst, p[1], name)
       IN IF found = << >> THEN r = Err(ErrExportNotFound)
          ELSE IF Head(found).kind # "Func" THEN r = Err(ErrExportNotFunc)
          ELSE /\ r.res = "Ok" /\ IsSome(r.val)
               /\ Unwrap(r.val).addr = inst.func_addrs[Head(found).index + 1]
               /\ Unwrap(r.val).ty = stores[p[1]].funcs[Unwrap(r.val).addr + 1].ty
               /\ Unwrap(r.val).name = Some(name)

\* an instance exports a table under a name while its store holds a function at
\* the table's address, and an instance exports a function whose address is
\* not its index
C11_Witness ==
    /\ \E p \in AllInstances : \E name \in ExportNames :
          /\ exported_func_by_name(p[2], p[1], name) = Err(ErrExportNotFunc)
          /\ IsSome(get_func(stores[p[1]], Unwrap(export(p[2], name)).addr))
    /\ \E p \in AllInstances : \E name \in ExportNames :
          LET r == exported_func_by_name(p[2], p[1], name)
          IN /\ r.res = "Ok"
             /\ Unwrap(r.val).addr # Head(ExportsNamed(p[2], name)).index

\* no instance with index idx is registered in store s
NotRegistered(s, idx) == \A inst \in InstancesOf(s) : inst.idx # idx

\* the last instantiate call returned an error that is not a segment trap
FailedBeforeRegistration ==
    last.op = "instantiate" /\ last.res = "Err" /\ last.err \notin SegmentTraps

\* a call that has not reached add_instance, or that failed, has registered nothing
FailedCallRegistersNothing ==
    /\ frame.pc \notin { "idle", "report" } => NotRegistered(frame.store, frame.idx)
    /\ FailedBeforeRegistration =>
          /\ last.err \in { ErrLink, ErrOutOfMemory }
          /\ last.inst = None
          /\ NotRegistered(last.store, last.idx)

\* the registered instances of a store change only in the add_instance step of
\* a call on that store, and a step that leaves instantiate with `?` returns an
\* error and leaves them as they are
InstancesChangeOnlyAtAddInstance ==
    /\ \A s \in StoreIds :
          stores'[s].module_instances # stores[s].module_instances =>
             frame.pc = "add_instance" /\ frame'.pc = "report" /\ frame.store = s
    /\ (frame.pc \notin { "idle", "report" } /\ frame'.pc = "idle") =>
          /\ last'.op = "instantiate" /\ last'.res = "Err"
          /\ last'.err \notin SegmentTraps
          /\ last'.store = frame.store /\ last'.idx = frame.idx

\* C12: when import linking or an allocation/initialisation step of instantiate
\* fails with an error that is not a segment trap, instantiate returns that
\* error and the registered module instances of the store are the same as
\* before the call: add_instance is not called for that attempt.
C12_FailureRegistersNothing ==
    [](FailedCallRegistersNothing) /\ [][InstancesChangeOnlyAtAddInstance]_vars

\* a call failed after it had allocated functions, in a store that holds an
\* instance registered earlier
C12_Witness ==
    /\ FailedBeforeRegistration
    /\ last.err = ErrOutOfMemory
    /\ \E k \in 1..Len(stores[last.store].funcs) :
          stores[last.store].funcs[k].owner = last.idx
    /\ InstancesOf(last.store) # { }

\* the references element segment seg of the call in progress writes
ElemRefs(seg) ==
    [j \in 1..Len(seg.items) |->
        IF seg.items[j] = None THEN None
        ELSE Some(frame.addrs.funcs[Unwrap(seg.items[j]) + 1])]

\* the element segments the call in progress has applied are in their tables,
\* and the data segments it has applied are in their memories
AppliedSegmentsInStore ==
    /\ frame.pc \in { "init_datas", "add_instance", "report" } =>
          \A k \in 1..Len(frame.elem_addrs) :
             LET seg == frame.module.elements[k]
                 table == stores[frame.store].tables[frame.addrs.tables[seg.table + 1] + 1]
             IN \A j \in 1..Len(seg.items) : table[seg.offset + j] = ElemRefs(seg)[j]
    /\ frame.pc \in { "add_instance", "report" } =>
          \A k \in 1..Len(frame.data_addrs) :
             LET seg == frame.module.data[k]
                 mem == stores[frame.store].mems[frame.addrs.memories[seg.mem + 1] + 1]
             IN \A j \in 1..Len(seg.bytes) : mem[seg.offset + j] = seg.bytes[j]

\* the tables and memories a store holds keep their contents in every step but
\* the init_elements and the init_datas step of a call on that store
ContentsKept ==
    \A s \in StoreIds :
       /\ Len(stores'[s].tables) >= Len(stores[s].tables)
       /\ Len(stores'[s].mems) >= Len(stores[s].mems)
       /\ \A i \in 1..Len(stores[s].tables) :
             stores'[s].tables[i] # stores[s].tables[i] =>
                frame.pc = "init_elements" /\ frame.store = s
       /\ \A i \in 1..Len(stores[s].mems) :
             stores'[s].mems[i] # stores[s].mems[i] =>
                frame.pc = "init_datas" /\ frame.store = s

\* C13: the segments applied before a trapping element or data segment stay
\* applied: when instantiate is about to return the trap, the table and memory
\* contents its earlier segments wrote are in the store, the return does not
\* undo them, and they stay until a later init_elements or init_datas writes.
C13_AppliedSegmentsStay == [](AppliedSegmentsInStore) /\ [][ContentsKept]_vars

\* instantiate returned an element trap, and the table of the instance it
\* registered holds the function reference the segment before the trapping one wrote
C13_Witness ==
    /\ frame.pc = "idle"
    /\ last.op = "instantiate" /\ last.err = TrapTableOutOfBounds
    /\ \E inst \in InstancesOf(last.store) :
          /\ inst.idx = last.idx
          /\ Len(inst.elem_addrs) = 1
          /\ stores[last.store].tables[inst.table_addrs[1] + 1][1] = Some(inst.func_addrs[1])

\* ModuleInstance::id, instance.rs:49-51
id(inst) == inst.idx

\* the indices in use in store s: those of its registered instances, those
\* owning its functions, and the one of a call in progress on it
IndicesInUse(s) ==
    { id(inst) : inst \in InstancesOf(s) }
    \cup { stores[s].funcs[k].owner : k \in 1..Len(stores[s].funcs) }
    \cup (IF frame.pc # "idle" /\ frame.store = s THEN { frame.idx } ELSE { })

\* every index in use in a store was handed out by its counter; registered
\* instances have pairwise distinct ids; the index of a call in progress is not
\* the id of a registered instance before add_instance, and owns the functions
\* of no other attempt
IndicesDistinct ==
    /\ \A s \in StoreIds :
          /\ \A i \in IndicesInUse(s) : i >= 0 /\ i < stores[s].module_instance_count
          /\ \A j, k \in 1..Len(stores[s].module_instances) :
                j # k => id(stores[s].module_instances[j]) # id(stores[s].module_instances[k])
    /\ frame.pc \in { "link", "init_funcs" } =>
          /\ NotRegistered(frame.store, frame.idx)
          /\ \A k \in 1..Len(stores[frame.store].funcs) :
                stores[frame.store].funcs[k].owner # frame.idx
    /\ (last.op = "instantiate" /\ frame.pc = "idle") =>
          last.idx < stores[last.store].module_instance_count

\* an instantiate call takes the value of the store's counter, which is above
\* every index in use, and the counter never goes back
IndexHandedOutOnce ==
    /\ \A s \in StoreIds :
          stores'[s].module_instance_count >= stores[s].module_instance_count
    /\ (frame.pc = "idle" /\ frame'.pc = "link") =>
          /\ frame'.idx = stores[frame'.store].module_instance_count
          /\ stores'[frame'.store].module_instance_count > frame'.idx
          /\ \A i \in IndicesInUse(frame'.store) : i < frame'.idx
          /\ (last.op = "instantiate" /\ last.store = frame'.store) => last.idx < frame'.idx

\* C14: a module-instance index handed out to an instantiate call on a store is
\* never handed out to a later call on that store, whether the earlier call
\* registered, trapped or failed: registered instances have pairwise distinct
\* id(), and the functions owned by an index belong to one attempt.
C14_IndexNeverReused == [](IndicesDistinct) /\ [][IndexHandedOutOnce]_vars

\* the second call on a store, after a call that failed having allocated
\* functions, has registered its instance under another index
C14_Witness ==
    \E s \in StoreIds :
       /\ stores[s].module_instance_count = 2
       /\ \E inst \in InstancesOf(s) : id(inst) = 1
       /\ NotRegistered(s, 0)
       /\ \E k \in 1..Len(stores[s].funcs) : stores[s].funcs[k].owner = 0
       /\ \E k \in 1..Len(stores[s].funcs) : stores[s].funcs[k].owner = 1

\* --------------------------------------------- claims about the conversion
\* the last call converted a stream
Converted == last.op = "process_operators"

\* the number of instructions operator item stands for
Width(item) ==
    IF item.res = "Ok" /\ item.val.op = "BrTable" THEN 1 + Len(item.val.targets.targets) ELSE 1

\* the number of instructions the first k items of ops stand for
RECURSIVE Offset(_, _)
Offset(ops, k) == IF k = 0 THEN 0 ELSE Offset(ops, k - 1) + Width(ops[k])

\* the positions of the br_tables of a stream, and of those with a label that
\* cannot be read
BrTables(ops) == { k \in 1..Len(ops) : ops[k].res = "Ok" /\ ops[k].val.op = "BrTable" }
BadBrTables(ops) ==
    { k \in BrTables(ops) :
        \E j \in 1..Len(ops[k].val.targets.targets) :
           ops[k].val.targets.targets[j].res = "Err" }

\* C15: process_operators expands every br_table with N case labels into
\* BrTable(default) immediately followed by exactly N BrLabel(depth_i) in table
\* order, the instruction after them being no BrLabel; if a case label cannot
\* be read the conversion fails and returns no instructions.
C15_BrTableExpansion ==
    Converted =>
       /\ last.res = "Ok" =>
             /\ \A k \in BrTables(last.ops) :
                   LET t == last.ops[k].val.targets
                       at == Offset(last.ops, k - 1)
                       N == Len(t.targets)
                   IN /\ last.val[at + 1] = Instruction("BrTable", << t.default >>)
                      /\ \A j \in 1..N :
                            last.val[at + 1 + j]
                               = Instruction("BrLabel", << t.targets[j].val >>)
                      /\ at + N + 2 <= Len(last.val) =>
                            last.val[at + N + 2].instr # "BrLabel"
             /\ Cardinality({ i \in 1..Len(last.val) :
                                 last.val[i].instr = "BrLabel" })
                   = Offset(last.ops, Len(last.ops)) - Len(last.ops)
       /\ BadBrTables(last.ops) # { } =>
             /\ last.res # "Ok" /\ last.val = None
             /\ (\A k \in 1..Len(last.ops) :
                    k \in BadBrTables(last.ops) \/ process_operators(<< last.ops[k] >>).res = "Ok")
                   => last.res = "Err" /\ last.err = FromReaderError(ErrLabel)

\* a br_table with two case labels was expanded between two other instructions
C15_Witness ==
    /\ Converted /\ last.res = "Ok"
    /\ \E k \in BrTables(last.ops) :
          /\ Len(last.ops[k].val.targets.targets) = 2
          /\ last.ops[k].val.targets.targets[1].val # last.ops[k].val.targets.targets[2].val
          /\ k > 1 /\ k < Len(last.ops)

\* the variants process_operators converts (the supported instruction set)
SupportedVariants ==
    UnitOperators \cup MemArgOperators
    \cup { "Block", "Loop", "If", "Br", "BrIf", "BrTable", "Call", "CallIndirect",
           "LocalGet", "LocalSet", "LocalTee", "GlobalGet", "GlobalSet",
           "MemorySize", "MemoryGrow" }

\* a block, loop or if whose blocktype is a type index
IsFuncTypeBlock(op) ==
    op.op \in { "Block", "Loop", "If" } /\ op.blockty.kind = "FuncType"

\* an operator of the supported set
SupportedOperator(op) == op.op \in SupportedVariants /\ ~IsFuncTypeBlock(op)

\* the items of a stream that are decode errors or operators outside the supported set
Offending(ops) ==
    { k \in 1..Len(ops) : ops[k].res = "Err" \/ ~SupportedOperator(ops[k].val) }

\* C16: if the stream contains, at any position, an operator outside the
\* supported set or a decode error, process_operators returns an error
\* (UnsupportedOperator describing an operator of the stream, or a decode error)
\* and no instruction buffer, however many supported operators came before.
C16_UnsupportedIsError ==
    (Converted /\ Offending(last.ops) # { }) =>
       /\ last.res = "Err"
       /\ last.val = None
       /\ \/ last.err \in { FromReaderError(ErrDecode), FromReaderError(ErrLabel) }
          \/ \E k \in Offending(last.ops) :
                last.ops[k].res = "Ok" /\ last.err = UnsupportedOperator(last.ops[k].val)

\* the first item of the stream that is a block, loop or if with a type-index
\* blocktype, when everything before it converts
ReachedFuncTypeBlock(ops) ==
    \E k \in 1..Len(ops) :
       /\ ops[k].res = "Ok" /\ IsFuncTypeBlock(ops[k].val)
       /\ process_operators(SubSeq(ops, 1, k - 1)).res = "Ok"

\* C17: converting a block, loop or if whose blocktype is a type index makes
\* process_operators return an error value (an unsupported error); it does
\* not abort.
C17_FuncTypeBlockIsError ==
    (Converted /\ ReachedFuncTypeBlock(last.ops)) =>
       /\ last.res = "Err"
       /\ last.val = None
       /\ \E k \in 1..Len(last.ops) :
             /\ last.ops[k].res = "Ok" /\ IsFuncTypeBlock(last.ops[k].val)
             /\ last.err = UnsupportedOperator(last.ops[k].val)

\* the parts of C16 that do not go through a type-index blocktype: a stream
\* without such a block fails with an error as C16 says
C16_WithoutFuncTypeBlocks ==
    (Converted /\ ~ReachedFuncTypeBlock(last.ops)) => C16_UnsupportedIsError

\* the immediates an operator carries, as the decoder gives them
OperatorImmediates(op) ==
    CASE op.op \in { "Block", "Loop", "If" } -> << op.blockty >>
      [] op.op \in { "Br", "BrIf" } -> << op.relative_depth >>
      [] op.op = "BrTable" -> << op.targets.default >>
      [] op.op = "Call" -> << op.function_index >>
      [] op.op = "CallIndirect" -> << op.type_index, op.table_index >>
      [] op.op \in { "LocalGet", "LocalSet", "LocalTee" } -> << op.local_index >>
      [] op.op \in { "GlobalGet", "GlobalSet" } -> << op.global_index >>
      [] op.op \in MemArgOperators -> << op.memarg.offset, op.memarg.align >>
      [] OTHER -> << >>

\* the value type a ValType of tinywasm_types stands for
ValTypeName(ty) ==
    CASE ty = "I32" -> "i32" [] ty = "I64" -> "i64" [] ty = "F32" -> "f32"
      [] ty = "F64" -> "f64" [] ty = "V128" -> "v128" [] ty = "FuncRef" -> "funcref"
      [] ty = "ExternRef" -> "externref"

\* the immediates an instruction carries, read back as the decoder writes them
InstructionImmediates(i) ==
    CASE i.instr \in { "Block", "Loop", "If" } ->
            << IF i.args[1].args = "Empty" THEN [kind |-> "Empty"]
               ELSE [kind |-> "Type", ty |-> ValTypeName(i.args[1].ty)] >>
      [] i.instr \in MemArgOperators -> << i.args[1].offset, i.args[1].align >>
      [] OTHER -> i.args

\* every item of the stream is a supported operator whose case labels can be read
AllSupported(ops) == Offending(ops) = { } /\ BadBrTables(ops) = { }

\* C18: for a stream made only of supported operators, process_operators emits
\* the instructions in operator order, one per operator that is no br_table
\* (a br_table is followed by its labels), each with the variant and the
\* immediates of its operator; the output length is the number of operators
\* plus the number of br_table case labels.
C18_ImmediatesCopied ==
    (Converted /\ AllSupported(last.ops)) =>
       /\ last.res = "Ok"
       /\ Len(last.val) = Offset(last.ops, Len(last.ops))
       /\ \A k \in 1..Len(last.ops) :
             LET i == last.val[Offset(last.ops, k - 1) + 1]
             IN /\ i.instr = last.ops[k].val.op
                /\ InstructionImmediates(i) = OperatorImmediates(last.ops[k].val)

\* a load, a typed loop and a br_table with labels were converted in one stream
C18_Witness ==
    /\ Converted /\ AllSupported(last.ops)
    /\ Len(last.ops) = MaxOps
    /\ \E k \in 1..MaxOps : last.ops[k].val.op = "I32Load"
    /\ \E k \in 1..MaxOps : last.ops[k].val.op = "Loop"
    /\ \E k \in BrTables(last.ops) : last.ops[k].val.targets.targets # << >>
    /\ Len(last.val) > MaxOps

\* the names an instance exports, in declaration order
ExportedNames(inst) == [i \in 1..Len(inst.exports) |-> inst.exports[i].name]

\* C19: the func_tys() and the export names of the instance an instantiate call
\* creates are those of the module, whatever the store held before and whatever
\* addresses were allocated; so the same module instantiated on two stores
\* yields instances with equal func_tys() and equal export names.
C19_TypesAndExportsFromModule ==
    frame.pc = "report" =>
       LET inst == LastAdded(frame.store)
       IN /\ func_tys(inst) = frame.module.func_types
          /\ ExportedNames(inst)
                = [i \in 1..Len(frame.module.exports) |-> frame.module.exports[i].name]
          /\ \A s \in StoreIds \ { frame.store } : \A other \in InstancesOf(s) :
                (other.types = frame.module.func_types
                   /\ other.exports = frame.module.exports) =>
                   /\ func_tys(other) = func_tys(inst)
                   /\ ExportedNames(other) = ExportedNames(inst)

\* a module with functions and an export has been instantiated on one store
\* and then on the other
C19_Witness ==
    /\ frame.pc = "report"
    /\ frame.module.func_types # << >> /\ frame.module.exports # << >>
    /\ \E s \in StoreIds \ { frame.store } : \E other \in InstancesOf(s) :
          /\ other.types = frame.module.func_types
          /\ other.exports = frame.module.exports
          /\ other.imports = frame.module.imports
          /\ other.func_start = frame.module.start_func
          /\ Len(other.func_addrs) = Len(LastAdded(frame.store).func_addrs)

\* the steps of one instantiate call, in the order of instance.rs:61-105
ProtocolOrder ==
    << "link", "init_funcs", "init_tables", "init_memories", "init_globals",
       "init_elements", "init_datas", "add_instance", "report" >>

\* the position an instantiate call is at leads to the next one of the order,
\* or out of the call
StepsInOrder ==
    \/ frame'.pc = frame.pc
    \/ frame'.pc = "idle"
    \/ frame.pc = "idle" /\ frame'.pc = ProtocolOrder[1]
    \/ \E i \in 1..(Len(ProtocolOrder) - 1) :
          frame.pc = ProtocolOrder[i] /\ frame'.pc = ProtocolOrder[i + 1]

\* each part of a store is changed by its own step only, and only in the store
\* of the call
EffectsInOrder ==
    \A s \in StoreIds :
       LET st == stores[s]
           nx == stores'[s]
           At(pc) == frame.pc = pc /\ frame.store = s
       IN /\ nx.module_instance_count # st.module_instance_count =>
                frame.pc = "idle" /\ frame'.pc = "link" /\ frame'.store = s
          /\ nx.funcs # st.funcs => At("init_funcs")
          /\ Len(nx.tables) # Len(st.tables) => At("init_tables")
          /\ Len(nx.mems) # Len(st.mems) => At("init_memories")
          /\ nx.globals # st.globals => At("init_globals")
          /\ (nx.elems # st.elems \/ SubSeq(nx.tables, 1, Len(st.tables)) # st.tables) =>
                At("init_elements")
          /\ (nx.datas # st.datas \/ SubSeq(nx.mems, 1, Len(st.mems)) # st.mems) =>
                At("init_datas")
          /\ nx.module_instances # st.module_instances => At("add_instance")

\* what init_datas does to the store does not depend on the element trap, and
\* the report returns what the two traps say
DatasAfterElements ==
    /\ (frame.pc = "init_datas" /\ frame'.pc # "idle") =>
          LET r == init_datas(stores[frame.store], frame.addrs.memories,
                              frame.module.data, << >>)
          IN /\ frame'.pc = "add_instance"
             /\ stores'[frame.store] = r.store
             /\ frame'.data_addrs = r.addrs /\ frame'.data_trapped = r.trap
             /\ frame'.elem_trapped = frame.elem_trapped
    /\ frame.pc = "report" =>
          /\ frame'.pc = "idle" /\ stores' = stores
          /\ last'.op = "instantiate"
          /\ last'.elem_trapped = frame.elem_trapped
          /\ last'.data_trapped = frame.data_trapped

\* a call that has passed init_datas has applied its data segments up to the
\* first one out of bounds, also when init_elements reported a trap
DatasApplied ==
    frame.pc \in { "add_instance", "report" } =>
       /\ Len(frame.data_addrs) + (IF IsSome(frame.data_trapped) THEN 1 ELSE 0)
             <= Len(frame.module.data)
       /\ frame.data_trapped = None => Len(frame.data_addrs) = Len(frame.module.data)
       /\ \A k \in 1..Len(frame.data_addrs) :
             LET seg == frame.module.data[k]
                 mem == stores[frame.store].mems[frame.addrs.memories[seg.mem + 1] + 1]
             IN \A j \in 1..Len(seg.bytes) : mem[seg.offset + j] = seg.bytes[j]

\* C20: within one instantiate call the store operations happen in the order
\* next_module_instance_idx, import linking, init_funcs, init_tables,
\* init_memories, init_globals, init_elements, init_datas, add_instance, trap
\* report; init_datas runs and applies its segments also when init_elements
\* reported a trap, and add_instance runs after both.
C20_ProtocolOrder ==
    [](DatasApplied) /\ [][StepsInOrder /\ EffectsInOrder /\ DatasAfterElements]_vars

\* init_elements reported a trap, init_datas has applied a data segment after
\* it, and the instance has been added
C20_Witness ==
    /\ frame.pc = "report"
    /\ IsSome(frame.elem_trapped)
    /\ frame.data_trapped = None
    /\ Len(frame.data_addrs) = 1
    /\ stores[frame.store].mems[frame.addrs.memories[1] + 1][1] = 1

\* the last call converted a function body
ConvertedCode == last.op = "convert_module_code"

\* count copies of ty
Run(count, ty) == [i \in 1..count |-> ty]

\* the run-length-encoded declarations expanded into one ValType per local slot
RECURSIVE Expanded(_)
Expanded(decls) ==
    IF decls = << >> THEN << >>
    ELSE Run(Head(decls).val[1], convert_valtype(Head(decls).val[2])) \o Expanded(Tail(decls))

\* the declarations and the operators of the function body can all be read,
\* and the operators convert
CodeReadable(func) ==
    /\ func.locals.res = "Ok"
    /\ \A i \in 1..Len(func.locals.val) : func.locals.val[i].res = "Ok"
    /\ func.operators.res = "Ok"
    /\ process_operators(func.operators.val).res = "Ok"

\* C21: convert_module_code expands the declarations (n_1, t_1) ... (n_k, t_k)
\* into a locals list of n_1 + ... + n_k entries, n_i copies of t_i in order;
\* construction fails when a declaration cannot be read (the length then does
\* not match the declared count).
C21_LocalsExpanded ==
    ConvertedCode =>
       /\ CodeReadable(last.func) =>
             /\ last.res = "Ok"
             /\ last.val.locals = Expanded(last.func.locals.val)
       /\ (last.func.locals.res = "Ok"
             /\ \E i \in 1..Len(last.func.locals.val) : last.func.locals.val[i].res = "Err") =>
             last.res = "Err"

\* the part of C21 that holds: when every declaration stands for one local the
\* locals list is the expansion, and an unreadable declaration fails the
\* construction with "Invalid local index"
C21_RunsOfOne ==
    ConvertedCode =>
       /\ (CodeReadable(last.func)
             /\ \A i \in 1..Len(last.func.locals.val) : last.func.locals.val[i].val[1] = 1) =>
             /\ last.res = "Ok"
             /\ last.val.locals = Expanded(last.func.locals.val)
       /\ (last.func.locals.res = "Ok"
             /\ \E i \in 1..Len(last.func.locals.val) : last.func.locals.val[i].res = "Err") =>
             last.res = "Err" /\ last.err = ErrInvalidLocalIndex

\* the step at which instantiate calls next_module_instance_idx (instance.rs:61)
TakesIndex == frame.pc = "idle" /\ frame'.pc = "link"

\* the counter of a store stands one above the value returned by the last call
\* of next_module_instance_idx on it, while the call that took the value runs
\* and after it has returned, whatever it returned
CounterAboveLastIndex ==
    /\ frame.pc # "idle" => stores[frame.store].module_instance_count = frame.idx + 1
    /\ (frame.pc = "idle" /\ last.op = "instantiate") =>
          stores[last.store].module_instance_count = last.idx + 1

\* a call of next_module_instance_idx returns the counter of its store and
\* advances it by one, so it returns one more than the previous call on that
\* store; no other step of any call changes a counter
ConsecutiveIndices ==
    /\ TakesIndex =>
          /\ frame'.idx = stores[frame'.store].module_instance_count
          /\ stores'[frame'.store].module_instance_count = frame'.idx + 1
          /\ \A t \in StoreIds \ { frame'.store } :
                stores'[t].module_instance_count = stores[t].module_instance_count
          /\ (last.op = "instantiate" /\ last.store = frame'.store) =>
                frame'.idx = last.idx + 1
    /\ ~TakesIndex =>
          \A s \in StoreIds :
             stores'[s].module_instance_count = stores[s].module_instance_count

Exported == last.op = "export" /\ frame.pc = "idle"

\* the positions of the exports called name, in declaration order
Named(inst, name) == { i \in 1..Len(inst.exports) : inst.exports[i].name = name }

\* the first export called name
FirstNamed(inst, name) ==
    inst.exports[CHOOSE i \in Named(inst, name) : \A j \in Named(inst, name) : i <= j]

\* the index of the export e is inside the address array of its kind
InRange(inst, e) == e.index < Len(AddrsOfKind(inst, e.kind))

\* what export must return: nothing when no export has the name or the first
\* one points outside its address array, else the kind of the first one with
\* the address at its index
Expected(inst, name) ==
    IF Named(inst, name) = { } THEN None
    ELSE LET e == FirstNamed(inst, name)
         IN IF ~InRange(inst, e) THEN None
            ELSE Some([ kind |-> e.kind, addr |-> AddrsOfKind(inst, e.kind)[e.index + 1] ])

\* C23: export(name) always returns: None exactly when no export has that name
\* or the first export with that name in declaration order has an index
\* outside the address array of its kind, otherwise the extern of that first
\* export; among exports sharing a name the first decides.
C23_ExportTotal ==
    Exported =>
       /\ last.val = Expected(last.inst, last.name)
       /\ last.val = None <=>
             \/ Named(last.inst, last.name) = { }
             \/ ~InRange(last.inst, FirstNamed(last.inst, last.name))

\* export returned None for a name held by two exports, the first with an
\* index outside its address array and the second inside
C23_Witness ==
    /\ Exported
    /\ Len(last.inst.exports) = 2
    /\ Named(last.inst, last.name) = { 1, 2 }
    /\ ~InRange(last.inst, last.inst.exports[1])
    /\ InRange(last.inst, last.inst.exports[2])
    /\ last.val = None

\* export returned the extern of the first of two exports sharing the name,
\* which differ in kind
C23_FirstDecides ==
    /\ Exported
    /\ Named(last.inst, last.name) = { 1, 2 }
    /\ InRange(last.inst, last.inst.exports[1])
    /\ InRange(last.inst, last.inst.exports[2])
    /\ last.inst.exports[1].kind # last.inst.exports[2].kind
    /\ IsSome(last.val)
    /\ Unwrap(last.val).kind = last.inst.exports[1].kind

====
